---- MODULE Spec2Model ----
(***************************************************************************)
(* Mexican Dice, online multiplayer: the turn/round state machine of       *)
(* src/engine/onlineActions.ts (applyClaim, applyCallBluff), the claim     *)
(* option builder src/lib/claimOptions.ts (buildClaimOptions) and the      *)
(* handlers of the online match screen (loadGame, handleRoll, handleClaim, *)
(* handleCallBluff, handleLeaveMatch).                                     *)
(*                                                                         *)
(* The claim engine src/engine/mexican.ts (isLegalRaise, isReverseOf,      *)
(* resolveBluff) is imported by the state machine; its definitions here    *)
(* follow sections 4.2 and 4.4 of the specification.                       *)
(*                                                                         *)
(* Encoding of TypeScript values:                                          *)
(*   string | null  a decimal string is the sequence of its digits,        *)
(*                  "53" = <<5, 3>>; null is nullStr                       *)
(*   number | null  null is nullNum                                        *)
(*   an object      a record with exactly the fields the object has        *)
(***************************************************************************)
EXTENDS Integers, Sequences, FiniteSets, TLC

\* state     the match: the CoreGameState the engine works on, stored in the
\*           games row
\* call      the last operation and its arguments
\* result    what it returned
\* game      each client's copy of the row (useState<OnlineGame>)
\* myRoll    each client's own roll of the turn (useState<number | null>)
\* heldRoll  the roll the claimant held when the standing claim was made: the
\*           hidden_rolls entry of the live screen; the older screen keeps
\*           it nowhere, the properties refer to it
\* penalties the number of penalty transitions (resolved bluff calls and
\*           lockdown violations) counted so far; the program keeps no such
\*           count, the properties refer to it
\* isRolling each client's flag that a roll is under way (useState<boolean>):
\*           set when handleRoll starts, reset when its row update returns
\* globalBest the value kept under 'survival:globalBest' in the KV store of
\*           api/survival-best.ts
\* inflight  the POST requests of that endpoint that have read the store and
\*           not yet answered
\* maxPosted the largest streak validly POSTed so far (0 when none); the
\*           program keeps no such value, the properties refer to it
VARIABLES state, call, result, game, myRoll, heldRoll, penalties, isRolling,
          globalBest, inflight, maxPosted

vars == <<state, call, result, game, myRoll, heldRoll, penalties, isRolling,
          globalBest, inflight, maxPosted>>

\* The survival-best endpoint, which the match never touches.
survival == <<globalBest, inflight, maxPosted>>

\* The match, which the survival-best endpoint never touches.
match == <<state, game, myRoll, heldRoll, penalties, isRolling>>

client == <<game, myRoll, heldRoll>>

\* What the handlers of the match never touch.
rest == <<penalties, isRolling, survival>>

\* Score both players hold when a match starts.
StartScore == 3

nullStr == << >>

nullNum == -1

Players == {"player1", "player2"}

\* Requests of the survival-best endpoint that can be under way together.
Requests == {1, 2}

idle == [pc |-> "idle"]

\* useState<OnlineGame | null>(null): no row loaded yet.
nullGame == [loaded |-> FALSE]

\* Claim and roll values the calls are drawn from: of the 21 normalized two-dice
\* values (high die first) the three specials, the lowest, a middle and the
\* highest ordinary value, and the lowest and highest double.
ClaimValues == {21, 31, 41, 32, 53, 65, 11, 66}

RECURSIVE String(_)
String(n) == IF n < 10 THEN <<n>> ELSE String(n \div 10) \o <<n % 10>>

RECURSIVE parseInt(_)
parseInt(s) == IF Len(s) = 1 THEN s[1] ELSE 10 * parseInt(SubSeq(s, 1, Len(s) - 1)) + s[Len(s)]

Max(a, b) == IF a >= b THEN a ELSE b

----------------------------------------------------------------------------
(* Claim domain and bluff resolver (src/engine/mexican.ts) *)

rankValue(v) ==
  IF v = 21 THEN 1000
  ELSE IF v \div 10 = v % 10 THEN 100 + v
  ELSE v

meetsOrBeats(a, b) == rankValue(a) >= rankValue(b)

isReverseOf(prev, v) == prev = 21 /\ v = 31

isLegalRaise(prev, claim) ==
  \/ prev = nullNum
  \/ meetsOrBeats(claim, prev)
  \/ isReverseOf(prev, claim)

resolveBluff(claimedValue, actualRoll, wasReverseVsMexican) ==
  [outcome |-> IF actualRoll = claimedValue THEN -1 ELSE 1,
   penalty |-> IF wasReverseVsMexican THEN 2 ELSE 1]

----------------------------------------------------------------------------
(* Turn/round state machine (src/engine/onlineActions.ts) *)

otherPlayer(p) == IF p = "player1" THEN "player2" ELSE "player1"

scoreOf(s, p) == IF p = "player1" THEN s.player1Score ELSE s.player2Score

\* Variant of claimNumber: a missing claim read as 0.
claimNumberZero(str) == IF str # nullStr THEN parseInt(str) ELSE 0

\* state.currentClaim ? parseInt(state.currentClaim, 10) : null
claimNumber(str) == IF str # nullStr THEN parseInt(str) ELSE nullNum

\* Variants of the definitions below, each changed the way a slip in the code
\* would change it; the properties at the end are checked against them too.
isFinishedNever(s) == FALSE

isFinishedByScore(s) == s.player1Score = 0 \/ s.player2Score = 0

isFinished(s) == s.status = "finished"

isLockdownViolationNever(prev, claim) == FALSE

isLockdownViolationAnyOther(prev, claim) == prev = 21 /\ claim # 21

isLockdownViolation(prev, claim) == prev = 21 /\ claim # 21 /\ claim # 31 /\ claim # 41

scoreAfterLossNoFloor(score, amount) == score - amount

scoreAfterLoss(score, amount) == Max(0, score - amount)

claimToCheckForgotten(s, prev) == nullNum

claimToCheck(s, prev) == IF s.baselineClaim # nullStr THEN parseInt(s.baselineClaim) ELSE prev

actionTypeAnyReverse(prev, claim) == IF claim = 31 THEN "reverseVsMexican" ELSE "normal"

actionType(prev, claim) == IF prev = 21 /\ claim = 31 THEN "reverseVsMexican" ELSE "normal"

newBaselineAlwaysClaim(s, prev, claim) == String(claim)

newBaselineOnlyOnReverse(s, prev, claim) ==
  IF isReverseOf(prev, claim)
  THEN (IF s.baselineClaim # nullStr THEN s.baselineClaim ELSE String(prev))
  ELSE s.baselineClaim

newBaselineKeepsFirst(s, prev, claim) ==
  IF s.baselineClaim # nullStr THEN s.baselineClaim ELSE String(claim)

newBaseline(s, prev, claim) ==
  IF isReverseOf(prev, claim)
  THEN (IF s.baselineClaim # nullStr THEN s.baselineClaim ELSE String(prev))
  ELSE String(claim)

clearedRoundKeepsRoll(s) ==
  [s EXCEPT !.currentClaim = nullStr, !.baselineClaim = nullStr, !.lastAction = "normal"]

\* The fields every round-ending newState resets:
\* currentRoll: null, currentClaim: null, baselineClaim: null, lastAction: 'normal'
clearedRound(s) ==
  [s EXCEPT !.currentRoll = nullStr, !.currentClaim = nullStr,
            !.baselineClaim = nullStr, !.lastAction = "normal"]

applyClaim(s, claim, actualRoll) ==
  IF isFinished(s) THEN [success |-> FALSE, error |-> <<"Game is finished">>]
  ELSE
  LET prev == claimNumber(s.currentClaim) IN
  IF isLockdownViolation(prev, claim) THEN
    LET loser == s.currentPlayer
        newScore == scoreAfterLoss(scoreOf(s, loser), 2)
        gameOver == newScore = 0
        other == otherPlayer(loser)
    IN [success |-> TRUE,
        newState |-> [clearedRound(s) EXCEPT
          !.player1Score = IF loser = "player1" THEN newScore ELSE s.player1Score,
          !.player2Score = IF loser = "player2" THEN newScore ELSE s.player2Score,
          !.currentPlayer = other,
          !.status = IF gameOver THEN "finished" ELSE "active",
          !.winner = IF gameOver THEN other ELSE "null"]]
  ELSE
  LET toCheck == claimToCheck(s, prev) IN
  IF ~isLegalRaise(toCheck, claim) THEN
    [success |-> FALSE,
     error |-> IF toCheck = nullNum
               THEN <<"Choose a valid claim">>
               ELSE <<"Claim ", claim, " must beat ", toCheck>>]
  ELSE IF claim = 41 THEN
    IF actualRoll # 41
    THEN [success |-> FALSE, error |-> <<"41 is Social and must be shown, not bluffed">>]
    ELSE [success |-> TRUE,
          newState |-> [clearedRound(s) EXCEPT
            !.currentPlayer = otherPlayer(s.currentPlayer)]]
  ELSE
    [success |-> TRUE,
     newState |-> [s EXCEPT
       !.currentClaim = String(claim),
       !.baselineClaim = newBaseline(s, prev, claim),
       !.lastAction = actionType(prev, claim),
       !.currentPlayer = otherPlayer(s.currentPlayer),
       !.currentRoll = nullStr]]

bluffLoserSwapped(liar, defender, caller) == IF liar THEN caller ELSE defender

bluffLoser(liar, defender, caller) == IF liar THEN defender ELSE caller

liarFieldDefender(liar, defender, caller) == defender

\* liar: liar ? defender : caller
liarField(liar, defender, caller) == IF liar THEN defender ELSE caller

turnAfterBluffDefender(caller, defender) == defender

turnAfterBluff(caller, defender) == caller

winnerAfterBluffUnguarded(gameOver, newPlayer1Score) ==
  IF newPlayer1Score = 0 THEN "player2" ELSE "player1"

\* winner = gameOver ? (newPlayer1Score === 0 ? 'player2' : 'player1') : null
winnerAfterBluff(gameOver, newPlayer1Score) ==
  IF gameOver THEN (IF newPlayer1Score = 0 THEN "player2" ELSE "player1") ELSE "null"

applyCallBluff(s, defenderActualRoll) ==
  LET currentClaim == claimNumber(s.currentClaim) IN
  IF currentClaim = nullNum THEN [thrown |-> <<"No claim to challenge">>]
  ELSE
  LET caller == s.currentPlayer
      defender == otherPlayer(caller)
      r == resolveBluff(currentClaim, defenderActualRoll, s.lastAction = "reverseVsMexican")
      liar == r.outcome = 1
      loser == bluffLoser(liar, defender, caller)
      lossAmount == r.penalty
      newPlayer1Score == IF loser = "player1" THEN scoreAfterLoss(s.player1Score, lossAmount) ELSE s.player1Score
      newPlayer2Score == IF loser = "player2" THEN scoreAfterLoss(s.player2Score, lossAmount) ELSE s.player2Score
      gameOver == newPlayer1Score = 0 \/ newPlayer2Score = 0
      winner == winnerAfterBluff(gameOver, newPlayer1Score)
  IN [success |-> TRUE,
      newState |-> [clearedRound(s) EXCEPT
        !.player1Score = newPlayer1Score,
        !.player2Score = newPlayer2Score,
        !.currentPlayer = turnAfterBluff(caller, defender),
        !.status = IF gameOver THEN "finished" ELSE "active",
        !.winner = winner],
      liar |-> liarField(liar, defender, caller),
      penalty |-> lossAmount,
      message |-> <<~liar, caller, defender, lossAmount>>]

----------------------------------------------------------------------------
(* Claim option builder (src/lib/claimOptions.ts), with the engine functions
   it imports (spec 4.2). Lists are sequences, as the arrays of the source. *)

\* playerRoll?: the argument left out.
undefinedNum == -2

\* Every two-dice value, high die first; the caller drops 41 itself.
enumerateClaims ==
  <<11, 21, 22, 31, 32, 33, 41, 42, 43, 44, 51, 52, 53, 54, 55,
    61, 62, 63, 64, 65, 66>>

isMexican(v) == v = 21

\* Display order, consistent with meetsOrBeats: negative when a ranks below b.
compareClaims(a, b) == rankValue(a) - rankValue(b)

Range(seq) == {seq[i] : i \in DOMAIN seq}

\* list.sort((a, b) => compareClaims(a, b))
RECURSIVE insertClaim(_, _)
insertClaim(x, seq) ==
  IF seq = << >> THEN <<x>>
  ELSE IF compareClaims(x, Head(seq)) <= 0 THEN <<x>> \o seq
  ELSE <<Head(seq)>> \o insertClaim(x, Tail(seq))

RECURSIVE sortClaims(_)
sortClaims(seq) ==
  IF seq = << >> THEN << >> ELSE insertClaim(Head(seq), sortClaims(Tail(seq)))

includeSpecialUnchecked(list) == Append(Append(list, 21), 31)

includeSpecialOnlyMexican(list) ==
  IF 21 \in Range(list) THEN list ELSE Append(list, 21)

includeSpecial(list) ==
  LET withMexican == IF 21 \in Range(list) THEN list ELSE Append(list, 21)
  IN IF 31 \in Range(withMexican) THEN withMexican ELSE Append(withMexican, 31)

optsBeatenByPrevious(all, previousClaim) ==
  SelectSeq(all, LAMBDA v : meetsOrBeats(previousClaim, v))

\* all.filter((v) => meetsOrBeats(v, previousClaim))
opts(all, previousClaim) ==
  SelectSeq(all, LAMBDA v : meetsOrBeats(v, previousClaim))

\* Variant of buildClaimOptions: a known roll caps the values offered.
buildClaimOptionsUpToRoll(previousClaim, playerRoll) ==
  LET all == SelectSeq(enumerateClaims, LAMBDA v : v # 41)
      upTo == IF playerRoll \in {nullNum, undefinedNum} THEN all
              ELSE SelectSeq(all, LAMBDA v : meetsOrBeats(playerRoll, v))
  IN IF previousClaim = nullNum THEN sortClaims(upTo)
     ELSE IF isMexican(previousClaim) THEN sortClaims(includeSpecial(<< >>))
     ELSE sortClaims(includeSpecial(opts(upTo, previousClaim)))

buildClaimOptions(previousClaim, playerRoll) ==
  LET all == SelectSeq(enumerateClaims, LAMBDA v : v # 41)
  IN IF previousClaim = nullNum THEN sortClaims(all)
     ELSE IF isMexican(previousClaim) THEN sortClaims(includeSpecial(<< >>))
     ELSE sortClaims(includeSpecial(opts(all, previousClaim)))

----------------------------------------------------------------------------
(* The match as a state machine *)

Init ==
  /\ \E first \in Players :
       state = [player1Score |-> StartScore, player2Score |-> StartScore,
                currentPlayer |-> first, currentRoll |-> nullStr,
                currentClaim |-> nullStr, baselineClaim |-> nullStr,
                lastAction |-> "normal", status |-> "active", winner |-> "null"]
  /\ call = [op |-> "none"]
  /\ result = [none |-> TRUE]
  /\ game = [p \in Players |-> nullGame]
  /\ myRoll = [p \in Players |-> nullNum]
  /\ heldRoll = nullNum
  /\ penalties = 0
  /\ isRolling = [p \in Players |-> FALSE]
  /\ globalBest = nullNum
  /\ inflight = [r \in Requests |-> idle]
  /\ maxPosted = 0

Accepted(r) == "success" \in DOMAIN r /\ r.success

NoNewState(r) == "newState" \notin DOMAIN r

\* The caller stores newState when the engine returns one (handleClaim, handleCallBluff).
stored(r) == IF "newState" \in DOMAIN r THEN r.newState ELSE state

ApplyClaim ==
  /\ UNCHANGED rest
  /\ \E claim \in ClaimValues, actualRoll \in ClaimValues \cup {nullNum} :
       /\ call' = [op |-> "applyClaim", claim |-> claim, actualRoll |-> actualRoll]
       /\ result' = applyClaim(state, claim, actualRoll)
       /\ state' = stored(result')
       /\ UNCHANGED client

ApplyCallBluff ==
  /\ UNCHANGED rest
  /\ \E defenderActualRoll \in ClaimValues \cup {0} :
       /\ call' = [op |-> "applyCallBluff", defenderActualRoll |-> defenderActualRoll]
       /\ result' = applyCallBluff(state, defenderActualRoll)
       /\ state' = stored(result')
       /\ UNCHANGED client

\* Leave Match: the leaving player forfeits, the row's claim fields are not touched.
handleLeaveMatch(s, me) == [s EXCEPT !.status = "finished", !.winner = otherPlayer(me)]

LeaveMatch ==
  /\ UNCHANGED rest
  /\ \E me \in Players :
       /\ call' = [op |-> "handleLeaveMatch", me |-> me]
       /\ result' = [none |-> TRUE]
       /\ state' = handleLeaveMatch(state, me)
       /\ UNCHANGED client

Next == ApplyClaim \/ ApplyCallBluff

Spec == Init /\ [][Next]_vars

NextMatch == ApplyClaim \/ ApplyCallBluff \/ LeaveMatch

SpecMatch == Init /\ [][NextMatch]_vars

\* The claim picker asks for its options: any prior claim, any roll or none.
BuildClaimOptions ==
  /\ UNCHANGED rest
  /\ \E previousClaim \in Range(enumerateClaims) \cup {nullNum},
        playerRoll \in ClaimValues \cup {nullNum, undefinedNum} :
       /\ call' = [op |-> "buildClaimOptions", previousClaim |-> previousClaim,
                   playerRoll |-> playerRoll]
       /\ result' = [options |-> buildClaimOptions(previousClaim, playerRoll)]
       /\ state' = state
       /\ UNCHANGED client

NextOptions == BuildClaimOptions

SpecOptions == Init /\ [][NextOptions]_vars

----------------------------------------------------------------------------
(* The online match screen (app/online match screen without live updates):
   each client works on its own copy of the games row and writes the row. *)

\* Dice values a roll shows and a player picks in the online flow.
OnlineValues == {21, 31, 41, 53}

isMyTurn(g, me) == g # nullGame /\ g.currentPlayer = me

mapGameToCoreState(g) ==
  [player1Score |-> g.player1Score, player2Score |-> g.player2Score,
   currentPlayer |-> g.currentPlayer, currentRoll |-> g.currentRoll,
   currentClaim |-> g.currentClaim, baselineClaim |-> g.baselineClaim,
   lastAction |-> g.lastAction,
   status |-> IF g.status = "finished" THEN "finished" ELSE "active",
   winner |-> g.winner]

mapCoreStateToGameUpdate(core) ==
  [player1Score |-> core.player1Score, player2Score |-> core.player2Score,
   currentPlayer |-> core.currentPlayer, currentRoll |-> core.currentRoll,
   currentClaim |-> core.currentClaim, baselineClaim |-> core.baselineClaim,
   lastAction |-> core.lastAction, status |-> core.status, winner |-> core.winner]

\* The claim picker: buildClaimOptions(current_claim, myRoll || 21), and 41
\* when it was rolled.
pickerValues(g, roll) ==
  Range(buildClaimOptions(claimNumber(g.currentClaim), IF roll \in {nullNum, 0} THEN 21 ELSE roll))
    \cup (IF roll = 41 THEN {41} ELSE {})

\* game.current_roll ? parseInt(game.current_roll, 10) : 0
opponentRoll(g) == IF g.currentRoll # nullStr THEN parseInt(g.currentRoll) ELSE 0

\* The screen is opened: the row is fetched, the roll of the screen starts empty.
LoadGame ==
  /\ UNCHANGED rest
  /\ \E me \in Players :
       /\ call' = [op |-> "loadGame", me |-> me]
       /\ result' = [none |-> TRUE]
       /\ game' = [game EXCEPT ![me] = state]
       /\ myRoll' = [myRoll EXCEPT ![me] = nullNum]
       /\ UNCHANGED <<state, heldRoll>>

HandleRoll ==
  /\ UNCHANGED rest
  /\ \E me \in Players, normalized \in OnlineValues :
       /\ isMyTurn(game[me], me)
       /\ myRoll[me] = nullNum
       /\ call' = [op |-> "handleRoll", me |-> me, normalized |-> normalized]
       /\ result' = [none |-> TRUE]
       /\ myRoll' = [myRoll EXCEPT ![me] = normalized]
       /\ state' = [state EXCEPT !.currentRoll = String(normalized)]
       /\ game' = [game EXCEPT ![me] = [game[me] EXCEPT !.currentRoll = String(normalized)]]
       /\ UNCHANGED heldRoll

HandleClaim ==
  /\ UNCHANGED rest
  /\ \E me \in Players :
       /\ isMyTurn(game[me], me)
       /\ myRoll[me] # nullNum
       /\ \E claimValue \in pickerValues(game[me], myRoll[me]) \cap OnlineValues :
            LET r == applyClaim(mapGameToCoreState(game[me]), claimValue, myRoll[me])
            IN /\ call' = [op |-> "handleClaim", me |-> me, claim |-> claimValue,
                           actualRoll |-> myRoll[me]]
               /\ result' = r
               /\ IF Accepted(r)
                  THEN LET updates == mapCoreStateToGameUpdate(r.newState)
                       IN /\ state' = updates
                          /\ game' = [game EXCEPT ![me] = updates]
                          /\ myRoll' = [myRoll EXCEPT ![me] = nullNum]
                          /\ heldRoll' = IF updates.currentClaim # nullStr
                                         THEN myRoll[me] ELSE nullNum
                  ELSE UNCHANGED <<state, game, myRoll, heldRoll>>

HandleCallBluff ==
  /\ UNCHANGED rest
  /\ \E me \in Players :
       /\ isMyTurn(game[me], me)
       /\ game[me].currentClaim # nullStr
       /\ LET roll == opponentRoll(game[me])
              r == applyCallBluff(mapGameToCoreState(game[me]), roll)
              updates == mapCoreStateToGameUpdate(r.newState)
          IN /\ call' = [op |-> "handleCallBluff", me |-> me, defenderActualRoll |-> roll]
             /\ result' = r
             /\ state' = updates
             /\ game' = [game EXCEPT ![me] = updates]
             /\ myRoll' = [myRoll EXCEPT ![me] = nullNum]
             /\ heldRoll' = nullNum

NextOnline == LoadGame \/ HandleRoll \/ HandleClaim \/ HandleCallBluff

SpecOnline == Init /\ [][NextOnline]_vars

----------------------------------------------------------------------------
(* The online match screen with live updates (app/online/[gameId].tsx): the
   handlers work on the client's copy of the row, which only the realtime
   subscription refreshes; rolls are kept in hidden_rolls, and a bluff call
   is resolved by the server. *)

\* Dice values a roll shows and a player picks in the live flow.
LiveValues == {21, 53}

\* supabase.from('games').update(updates).eq('id', game.id): the columns named
\* in the update are overwritten, the others stay.
updateRow(row, updates) == updates @@ row

\* The subscription callback, and the first fetch: setGame(row).
SetGame ==
  /\ UNCHANGED rest
  /\ \E me \in Players :
       /\ game[me] # state
       /\ call' = [op |-> "setGame", me |-> me]
       /\ result' = [none |-> TRUE]
       /\ game' = [game EXCEPT ![me] = state]
       /\ UNCHANGED <<state, myRoll, heldRoll>>

\* handleRoll: the roll goes to hidden_rolls, the row gets only timestamps.
HandleRollLive ==
  /\ UNCHANGED rest
  /\ \E me \in Players, normalized \in LiveValues :
       /\ isMyTurn(game[me], me)
       /\ myRoll[me] = nullNum
       /\ call' = [op |-> "handleRoll", me |-> me, normalized |-> normalized]
       /\ result' = [none |-> TRUE]
       /\ myRoll' = [myRoll EXCEPT ![me] = normalized]
       /\ UNCHANGED <<state, game, heldRoll>>

\* handleClaim: the update is written to the row; the copy waits for SetGame.
HandleClaimLive ==
  /\ UNCHANGED rest
  /\ \E me \in Players :
       /\ isMyTurn(game[me], me)
       /\ myRoll[me] # nullNum
       /\ \E claimValue \in pickerValues(game[me], myRoll[me]) \cap LiveValues :
            LET r == applyClaim(mapGameToCoreState(game[me]), claimValue, myRoll[me])
            IN /\ call' = [op |-> "handleClaim", me |-> me, claim |-> claimValue,
                           actualRoll |-> myRoll[me]]
               /\ result' = r
               /\ UNCHANGED game
               /\ IF Accepted(r)
                  THEN LET updates == mapCoreStateToGameUpdate(r.newState)
                       IN /\ state' = updateRow(state, updates)
                          /\ myRoll' = [myRoll EXCEPT ![me] = nullNum]
                          /\ heldRoll' = IF updates.currentClaim # nullStr
                                         THEN myRoll[me] ELSE nullNum
                  ELSE UNCHANGED <<state, myRoll, heldRoll>>

\* resolveBluffSecure(game.id, claim): the server resolves the call on the row
\* against the claimant's hidden roll (section 4.5, apply bluff call).
resolveBluffSecure(row, hiddenRoll) == applyCallBluff(row, hiddenRoll)

HandleCallBluffLive ==
  /\ UNCHANGED rest
  /\ \E me \in Players :
       /\ isMyTurn(game[me], me)
       /\ game[me].currentClaim # nullStr
       /\ LET r == resolveBluffSecure(state, heldRoll)
          IN /\ call' = [op |-> "handleCallBluff", me |-> me,
                         claimNumber |-> parseInt(game[me].currentClaim)]
             /\ result' = r
             /\ state' = stored(r)
             /\ heldRoll' = IF Accepted(r) THEN nullNum ELSE heldRoll
             /\ myRoll' = [myRoll EXCEPT ![me] = IF "thrown" \in DOMAIN r
                                                  THEN myRoll[me] ELSE nullNum]
             /\ UNCHANGED game

NextLive == SetGame \/ HandleRollLive \/ HandleClaimLive \/ HandleCallBluffLive

SpecLive == Init /\ [][NextLive]_vars

\* Leave Match on the live screen: the row is finished with the opponent as
\* winner, and the screen is left for the menu (its state is gone).
HandleLeaveMatchLive ==
  \E me \in Players :
    /\ game[me] # nullGame
    /\ call' = [op |-> "handleLeaveMatch", me |-> me]
    /\ result' = [none |-> TRUE]
    /\ state' = handleLeaveMatch(state, me)
    /\ game' = [game EXCEPT ![me] = nullGame]
    /\ myRoll' = [myRoll EXCEPT ![me] = nullNum]
    /\ UNCHANGED <<heldRoll, rest>>

NextLeave == NextLive \/ HandleLeaveMatchLive

SpecLeave == Init /\ [][NextLeave]_vars

\* A match that was just created (insert of status 'waiting', current_player
\* 'player1'; the other columns at their defaults): nobody has joined yet.
InitWaiting ==
  /\ state = [player1Score |-> StartScore, player2Score |-> StartScore,
              currentPlayer |-> "player1", currentRoll |-> nullStr,
              currentClaim |-> nullStr, baselineClaim |-> nullStr,
              lastAction |-> "normal", status |-> "waiting", winner |-> "null",
              player1_joined |-> FALSE, player2_joined |-> FALSE]
  /\ call = [op |-> "none"]
  /\ result = [none |-> TRUE]
  /\ game = [p \in Players |-> nullGame]
  /\ myRoll = [p \in Players |-> nullNum]
  /\ heldRoll = nullNum
  /\ penalties = 0
  /\ isRolling = [p \in Players |-> FALSE]
  /\ globalBest = nullNum
  /\ inflight = [r \in Requests |-> idle]
  /\ maxPosted = 0

alreadyJoined(g, me) == IF me = "player1" THEN g.player1_joined ELSE g.player2_joined

\* markJoined: the effect that runs while the client's copy shows its player
\* as not joined; it sets the player's joined column of the row.
MarkJoined ==
  \E me \in Players :
    /\ game[me] # nullGame
    /\ ~alreadyJoined(game[me], me)
    /\ call' = [op |-> "markJoined", me |-> me]
    /\ result' = [none |-> TRUE]
    /\ state' = IF me = "player1"
                THEN updateRow(state, [player1_joined |-> TRUE])
                ELSE updateRow(state, [player2_joined |-> TRUE])
    /\ UNCHANGED <<client, rest>>

shouldActivateWhenActive(g) ==
  g.status = "active" /\ g.player1_joined = TRUE /\ g.player2_joined = TRUE

\* maybeActivate: its condition on the client's copy.
shouldActivate(g) ==
  g.status = "waiting" /\ g.player1_joined = TRUE /\ g.player2_joined = TRUE

MaybeActivate ==
  \E me \in Players :
    /\ game[me] # nullGame
    /\ shouldActivate(game[me])
    /\ call' = [op |-> "maybeActivate", me |-> me]
    /\ result' = [none |-> TRUE]
    /\ state' = updateRow(state, [status |-> "active"])
    /\ UNCHANGED <<client, rest>>

NextJoin == SetGame \/ MarkJoined \/ MaybeActivate \/ HandleRollLive \/ HandleClaimLive

SpecJoin == InitWaiting /\ [][NextJoin]_vars

\* Effects run whenever their dependencies change and row notifications are
\* delivered: each client's refresh, join and activation step is taken if it
\* stays enabled.
FairJoin ==
  \A p \in Players :
    /\ WF_vars(SetGame /\ call'.me = p)
    /\ WF_vars(MarkJoined /\ call'.me = p)
    /\ WF_vars(MaybeActivate /\ call'.me = p)

SpecJoinFair == InitWaiting /\ [][NextJoin]_vars /\ FairJoin

\* handleRoll up to its row update: the roll is saved to hidden_rolls and shown
\* (setMyRoll) while the update of the row's timestamps is awaited.
HandleRollStart ==
  \E me \in Players, normalized \in LiveValues :
    /\ isMyTurn(game[me], me)
    /\ ~isRolling[me]
    /\ myRoll[me] = nullNum
    /\ call' = [op |-> "handleRoll", me |-> me, normalized |-> normalized]
    /\ result' = [none |-> TRUE]
    /\ isRolling' = [isRolling EXCEPT ![me] = TRUE]
    /\ myRoll' = [myRoll EXCEPT ![me] = normalized]
    /\ UNCHANGED <<state, game, heldRoll, penalties, survival>>

\* The row update of handleRoll returns: with an error the roll shown is taken
\* back (setMyRoll(null)); in both cases isRolling is reset.
HandleRollWrite ==
  \E me \in Players, updateError \in BOOLEAN :
    /\ isRolling[me]
    /\ call' = [op |-> "handleRollWrite", me |-> me, updateError |-> updateError]
    /\ result' = [none |-> TRUE]
    /\ myRoll' = IF updateError THEN [myRoll EXCEPT ![me] = nullNum] ELSE myRoll
    /\ isRolling' = [isRolling EXCEPT ![me] = FALSE]
    /\ UNCHANGED <<state, game, heldRoll, penalties, survival>>

NextWrites ==
  \/ SetGame \/ HandleRollStart \/ HandleRollWrite
  \/ HandleClaimLive \/ HandleCallBluffLive

SpecWrites == Init /\ [][NextWrites]_vars

\* The engine on rows that carry a roll: handleRoll of the older screen writes
\* current_roll into the row the engine is then called on.
WriteRoll ==
  /\ UNCHANGED rest
  /\ \E normalized \in OnlineValues :
       /\ call' = [op |-> "handleRoll", normalized |-> normalized]
       /\ result' = [none |-> TRUE]
       /\ state' = [state EXCEPT !.currentRoll = String(normalized)]
       /\ UNCHANGED client

NextRoll == ApplyClaim \/ ApplyCallBluff \/ WriteRoll

SpecRoll == Init /\ [][NextRoll]_vars

\* The engine calls with the penalty transitions counted: a lockdown violation
\* (the branch of applyClaim that takes two points) and a resolved bluff call.
ApplyClaimCounted ==
  \E claim \in ClaimValues, actualRoll \in ClaimValues \cup {nullNum} :
    /\ call' = [op |-> "applyClaim", claim |-> claim, actualRoll |-> actualRoll]
    /\ result' = applyClaim(state, claim, actualRoll)
    /\ state' = stored(result')
    /\ penalties' = IF /\ ~isFinished(state)
                      /\ isLockdownViolation(claimNumber(state.currentClaim), claim)
                   THEN penalties + 1 ELSE penalties
    /\ UNCHANGED <<client, isRolling, survival>>

ApplyCallBluffCounted ==
  \E defenderActualRoll \in ClaimValues \cup {0} :
    /\ call' = [op |-> "applyCallBluff", defenderActualRoll |-> defenderActualRoll]
    /\ result' = applyCallBluff(state, defenderActualRoll)
    /\ state' = stored(result')
    /\ penalties' = IF Accepted(result') THEN penalties + 1 ELSE penalties
    /\ UNCHANGED <<client, isRolling, survival>>

NextCounted == ApplyClaimCounted \/ ApplyCallBluffCounted

SpecCounted == Init /\ [][NextCounted]_vars

----------------------------------------------------------------------------
(* The global survival best (api/survival-best.ts): one number in a KV store,
   read by GET and raised by POST. *)

\* Largest streak a request carries.
MaxStreak == 9

Methods == {"OPTIONS", "GET", "POST", "PUT"}

\* req.body: a string that is not JSON, no body, or an object whose streak is
\* missing, a string, or a number.
Bodies ==
  {[malformed |-> TRUE], [empty |-> TRUE], [streak |-> [undefined |-> TRUE]],
   [streak |-> [str |-> "7"]]}
    \cup {[streak |-> [num |-> n]] : n \in -1 .. MaxStreak}

\* const { streak } = body || {}
streakOf(body) == IF "streak" \in DOMAIN body THEN body.streak ELSE [undefined |-> TRUE]

\* typeof streak !== 'number' || streak < 0
invalidStreak(streak) == "num" \notin DOMAIN streak \/ streak.num < 0

\* (await kv.get<number>(GLOBAL_KEY)) ?? 0
bestOf(kv) == IF kv = nullNum THEN 0 ELSE kv

beatsOrTies(streak, current) == streak >= current

\* streak > current
beats(streak, current) == streak > current

\* One request handled from start to end: the response and the store after it.
handler(kv, method, body) ==
  IF method = "OPTIONS" THEN [res |-> [status |-> 200], kv |-> kv]
  ELSE IF method = "GET" THEN [res |-> [status |-> 200, best |-> bestOf(kv)], kv |-> kv]
  ELSE IF method = "POST" THEN
    IF "malformed" \in DOMAIN body
    THEN [res |-> [status |-> 500, error |-> "Internal Server Error"], kv |-> kv]
    ELSE LET streak == streakOf(body) IN
      IF invalidStreak(streak)
      THEN [res |-> [status |-> 400, error |-> "streak must be a non-negative number"],
            kv |-> kv]
      ELSE LET current == bestOf(kv) IN
        IF beats(streak.num, current)
        THEN [res |-> [status |-> 200, best |-> streak.num, updated |-> TRUE],
              kv |-> streak.num]
        ELSE [res |-> [status |-> 200, best |-> current, updated |-> FALSE], kv |-> kv]
  ELSE [res |-> [status |-> 405], kv |-> kv]

validPost(method, body) ==
  method = "POST" /\ "malformed" \notin DOMAIN body /\ ~invalidStreak(streakOf(body))

\* Requests handled one at a time.
Handler ==
  \E method \in Methods, body \in Bodies :
    LET h == handler(globalBest, method, body) IN
    /\ call' = [op |-> "handler", method |-> method, body |-> body]
    /\ result' = h.res
    /\ globalBest' = h.kv
    /\ maxPosted' = IF validPost(method, body)
                   THEN Max(maxPosted, streakOf(body).num) ELSE maxPosted
    /\ UNCHANGED <<inflight, match>>

NextHandler == Handler

SpecHandler == Init /\ [][NextHandler]_vars

\* Requests under way together. A valid POST reads the store (await kv.get)
\* and compares; when its streak is larger it goes on to write (await kv.set),
\* and other requests are served between the two.
PostGet ==
  \E r \in Requests, n \in 0 .. MaxStreak :
    LET current == bestOf(globalBest) IN
    /\ inflight[r] = idle
    /\ call' = [op |-> "POST: kv.get", request |-> r, streak |-> n]
    /\ maxPosted' = Max(maxPosted, n)
    /\ IF beats(n, current)
       THEN /\ inflight' = [inflight EXCEPT ![r] = [pc |-> "set", streak |-> n]]
            /\ result' = [none |-> TRUE]
       ELSE /\ inflight' = inflight
            /\ result' = [status |-> 200, best |-> current, updated |-> FALSE]
    /\ UNCHANGED <<globalBest, match>>

PostSet ==
  \E r \in Requests :
    /\ inflight[r] # idle
    /\ call' = [op |-> "POST: kv.set", request |-> r, streak |-> inflight[r].streak]
    /\ globalBest' = inflight[r].streak
    /\ result' = [status |-> 200, best |-> inflight[r].streak, updated |-> TRUE]
    /\ inflight' = [inflight EXCEPT ![r] = idle]
    /\ UNCHANGED <<maxPosted, match>>

NextConcurrent == PostGet \/ PostSet

SpecConcurrent == Init /\ [][NextConcurrent]_vars

----------------------------------------------------------------------------
(* Properties *)

\* C1: from a fresh match, under applyClaim and applyCallBluff, both scores stay
\* >= 0, and a transition that brings a player's score to exactly 0 yields
\* status finished with the other player as winner.
C1_ScoreFloorAndGameOver ==
  [][/\ state'.player1Score >= 0
     /\ state'.player2Score >= 0
     /\ \A p \in Players :
          (scoreOf(state, p) > 0 /\ scoreOf(state', p) = 0)
            => (state'.status = "finished" /\ state'.winner = otherPlayer(p))]_vars

C1_Witness ==
  /\ call.op = "applyCallBluff"
  /\ Accepted(result)
  /\ state.player1Score = 0
  /\ state.status = "finished"
  /\ state.winner = "player2"

\* C2: once status is finished no later applyClaim or applyCallBluff is
\* accepted: status, winner and both scores (the whole state) never change again.
C2_FinishedIsTerminal ==
  [][state.status = "finished"
       => (~Accepted(result') /\ NoNewState(result') /\ state' = state)]_vars

C2_Witness ==
  /\ state.status = "finished"
  /\ call.op = "applyCallBluff"
  /\ ~Accepted(result)

\* C3: in every finished state, also one whose currentClaim is still non-null
\* (a match finished by forfeit), applyCallBluff rejects the call and leaves the
\* state unchanged.
C3_FinishedRejectsCallBluff ==
  [][(state.status = "finished" /\ call'.op = "applyCallBluff")
       => (~Accepted(result') /\ NoNewState(result') /\ state' = state)]_vars

\* C4: in every finished state, for every claim and actualRoll, applyClaim
\* returns success=false with the error 'Game is finished' and no newState.
C4_FinishedRejectsClaim ==
  [][(state.status = "finished" /\ call'.op = "applyClaim")
       => (/\ result' = [success |-> FALSE, error |-> <<"Game is finished">>]
           /\ state' = state)]_vars

C4_Witness ==
  /\ state.status = "finished"
  /\ state.currentClaim # nullStr
  /\ call.op = "applyClaim"
  /\ result = [success |-> FALSE, error |-> <<"Game is finished">>]

\* C5 as stated: every accepted transition, applyClaim or applyCallBluff,
\* returns a newState whose currentPlayer differs from the input state's.
C5_EveryAcceptedTransitionPassesTurn ==
  [][Accepted(result') => state'.currentPlayer # state.currentPlayer]_vars

\* C5 as amended: every accepted applyClaim (ordinary claim, shown Social,
\* lockdown violation) passes the turn to the other player; an accepted
\* applyCallBluff leaves the turn with the caller.
C5_ClaimPassesTurnBluffKeepsIt ==
  [][Accepted(result')
       => IF call'.op = "applyClaim"
          THEN state'.currentPlayer = otherPlayer(state.currentPlayer)
          ELSE state'.currentPlayer = state.currentPlayer]_vars

C5_Witness ==
  /\ call.op = "applyCallBluff"
  /\ Accepted(result)
  /\ state.currentPlayer = result.message[2]

\* C6: on an active state with a claim and lastAction normal, applyCallBluff
\* changes exactly one score, by 1 floored at 0: the caller's when
\* defenderActualRoll equals currentClaim, the defender's when it differs.
C6_BluffLiability ==
  [][(/\ call'.op = "applyCallBluff"
      /\ state.status = "active"
      /\ state.currentClaim # nullStr
      /\ state.lastAction = "normal")
       => LET caller == state.currentPlayer
              loser == IF call'.defenderActualRoll = parseInt(state.currentClaim)
                       THEN caller ELSE otherPlayer(caller)
          IN /\ Accepted(result')
             /\ scoreOf(state', loser) = Max(0, scoreOf(state, loser) - 1)
             /\ scoreOf(state', loser) # scoreOf(state, loser)
             /\ scoreOf(state', otherPlayer(loser)) = scoreOf(state, otherPlayer(loser))]_vars

C6_Witness ==
  /\ call.op = "applyCallBluff"
  /\ Accepted(result)
  /\ result.penalty = 1
  /\ result.message[1]
  /\ result.liar = state.currentPlayer

\* C7: a bluff call costs its loser 2 points (floored at 0) exactly when the
\* challenged claim is a 31 accepted against currentClaim 21 (lastAction
\* reverseVsMexican), truthful or not; every other bluff call costs 1 point.
C7_DoublePenaltyOnlyForReverseVsMexican ==
  [][/\ (call'.op = "applyClaim" /\ Accepted(result'))
          => (state'.lastAction = "reverseVsMexican"
                <=> (claimNumber(state.currentClaim) = 21 /\ call'.claim = 31))
     /\ (call'.op = "applyCallBluff" /\ Accepted(result'))
          => LET cost == IF state.lastAction = "reverseVsMexican" THEN 2 ELSE 1
                 loser == result'.liar
             IN /\ result'.penalty = cost
                /\ scoreOf(state', loser) = Max(0, scoreOf(state, loser) - cost)
                /\ scoreOf(state', otherPlayer(loser)) = scoreOf(state, otherPlayer(loser))
                /\ state.lastAction = "reverseVsMexican" => state.currentClaim = String(31)
                /\ state'.lastAction = "normal"]_vars

C7_Witness ==
  /\ call.op = "applyCallBluff"
  /\ Accepted(result)
  /\ result.penalty = 2
  /\ result.message[1]

\* C8 as stated: on an active state with currentClaim 21, a claim outside
\* {21, 31, 41} succeeds, reduces the current player's score by exactly 2,
\* leaves the opponent's score unchanged and passes the turn.
C8_LockdownViolationCostsExactlyTwo ==
  [][(/\ call'.op = "applyClaim"
      /\ state.status = "active"
      /\ state.currentClaim = String(21)
      /\ call'.claim \notin {21, 31, 41})
       => LET me == state.currentPlayer
          IN /\ Accepted(result')
             /\ scoreOf(state', me) = scoreOf(state, me) - 2
             /\ scoreOf(state', otherPlayer(me)) = scoreOf(state, otherPlayer(me))
             /\ state'.currentPlayer = otherPlayer(me)]_vars

\* C8 as amended: the current player's score drops by 2 floored at 0 (a score
\* of 1 drops to 0); the rest as stated.
C8_LockdownViolationCostsTwoFloored ==
  [][(/\ call'.op = "applyClaim"
      /\ state.status = "active"
      /\ state.currentClaim = String(21)
      /\ call'.claim \notin {21, 31, 41})
       => LET me == state.currentPlayer
          IN /\ Accepted(result')
             /\ scoreOf(state', me) = Max(0, scoreOf(state, me) - 2)
             /\ scoreOf(state', otherPlayer(me)) = scoreOf(state, otherPlayer(me))
             /\ state'.currentPlayer = otherPlayer(me)]_vars

C8_Witness ==
  /\ call.op = "applyClaim"
  /\ call.claim \notin {21, 31, 41}
  /\ Accepted(result)
  /\ state.status = "finished"
  /\ scoreOf(state, state.winner) = StartScore

\* C9: a claim outside {21, 31, 41} is a lockdown violation (accepted, 2 points
\* lost by the claimant, round reset) whenever currentClaim or baselineClaim is
\* 21, also right after a Reverse (currentClaim 31, baselineClaim 21).
C9_ViolationWheneverBaselineIsMexican ==
  [][(/\ call'.op = "applyClaim"
      /\ state.status = "active"
      /\ (claimNumber(state.currentClaim) = 21 \/ claimNumber(state.baselineClaim) = 21)
      /\ call'.claim \notin {21, 31, 41})
       => LET me == state.currentPlayer
          IN /\ Accepted(result')
             /\ scoreOf(state', me) = Max(0, scoreOf(state, me) - 2)
             /\ state'.currentClaim = nullStr
             /\ state'.baselineClaim = nullStr]_vars

\* C10: on every active state, whatever currentClaim and baselineClaim, claim
\* 41 is rejected when actualRoll # 41, and with actualRoll = 41 it succeeds,
\* clears currentClaim and baselineClaim, passes the turn and changes no score.
C10_SocialValidatedByRollOnly ==
  [][(/\ call'.op = "applyClaim"
      /\ state.status = "active"
      /\ call'.claim = 41)
       => IF call'.actualRoll # 41
          THEN ~Accepted(result') /\ NoNewState(result')
          ELSE /\ Accepted(result')
               /\ state'.currentClaim = nullStr
               /\ state'.baselineClaim = nullStr
               /\ state'.currentPlayer = otherPlayer(state.currentPlayer)
               /\ state'.player1Score = state.player1Score
               /\ state'.player2Score = state.player2Score]_vars

\* C11: through a chain of consecutive accepted Reverse (31) claims that follows
\* a Mexican (21) claim, baselineClaim keeps the value it had when the first
\* Reverse was played: a further Reverse played on the Reverse that answered the
\* 21 leaves baselineClaim as it was.
C11_BaselineKeptThroughReverseChain ==
  [][(/\ call'.op = "applyClaim"
      /\ call'.claim = 31
      /\ Accepted(result')
      /\ state.status = "active"
      /\ state.currentClaim = String(31)
      /\ state.lastAction = "reverseVsMexican")
       => state'.baselineClaim = state.baselineClaim]_vars

\* C12 as stated: when 31 is claimed on a state whose currentClaim is 21,
\* applyClaim succeeds with lastAction reverseVsMexican, the turn passes, and
\* baselineClaim equals the baselineClaim that held before the 21 was claimed.
\* Stated at the step that accepts the 21: the Reverse that answers it yields
\* the baseline of the state the 21 was claimed on.
C12_ReverseRestoresPreMexicanBaseline ==
  [][(/\ call'.op = "applyClaim"
      /\ call'.claim = 21
      /\ Accepted(result')
      /\ state'.currentClaim = String(21))
       => LET r == applyClaim(state', 31, nullNum)
          IN /\ Accepted(r)
             /\ r.newState.lastAction = "reverseVsMexican"
             /\ r.newState.currentPlayer = otherPlayer(state'.currentPlayer)
             /\ r.newState.baselineClaim = state.baselineClaim]_vars

\* C12 as amended: when 31 is claimed on an active state whose currentClaim is
\* 21, applyClaim succeeds with currentClaim 31 and lastAction reverseVsMexican,
\* the turn passes, and baselineClaim is the one of the input state, which is
\* the 21 itself (the 21 became the baseline when it was claimed).
C12_ReverseOverMexicanKeepsMexicanBaseline ==
  [][(/\ call'.op = "applyClaim"
      /\ state.status = "active"
      /\ state.currentClaim = String(21)
      /\ call'.claim = 31)
       => /\ Accepted(result')
          /\ state'.currentClaim = String(31)
          /\ state'.lastAction = "reverseVsMexican"
          /\ state'.currentPlayer = otherPlayer(state.currentPlayer)
          /\ state'.baselineClaim = state.baselineClaim
          /\ state'.baselineClaim = String(21)]_vars

C12_Witness ==
  /\ call.op = "applyClaim"
  /\ call.claim = 31
  /\ Accepted(result)
  /\ state.lastAction = "reverseVsMexican"
  /\ state.currentClaim = String(31)
  /\ state.baselineClaim = String(21)

\* C13: in every state reachable from a fresh match by applyClaim and
\* applyCallBluff calls, baselineClaim is null exactly when currentClaim is null.
C13_BaselineNullIffClaimNull ==
  (state.baselineClaim = nullStr) <=> (state.currentClaim = nullStr)

C13_Witness ==
  /\ state.currentClaim # nullStr
  /\ state.baselineClaim # nullStr
  /\ state.baselineClaim # state.currentClaim

\* C14: within a round (while currentClaim stays non-null) every claim that
\* applyClaim accepts as the new currentClaim meets or beats the previous
\* currentClaim in the claim ranking, the only exception being 31 claimed
\* directly over 21; no claim ranked below the current one becomes the claim.
C14_AcceptedClaimMeetsOrBeatsCurrent ==
  [][(/\ call'.op = "applyClaim"
      /\ Accepted(result')
      /\ state.currentClaim # nullStr
      /\ state'.currentClaim # nullStr)
       => LET prev == parseInt(state.currentClaim)
          IN /\ state'.currentClaim = String(call'.claim)
             /\ \/ meetsOrBeats(call'.claim, prev)
                \/ (prev = 21 /\ call'.claim = 31)]_vars

C14_Witness ==
  /\ state.status = "active"
  /\ state.currentClaim = String(53)
  /\ Accepted(applyClaim(state, 65, nullNum))
  /\ applyClaim(state, 65, nullNum).newState.currentClaim = String(65)
  /\ ~Accepted(applyClaim(state, 32, nullNum))

\* C16: on every state whose currentClaim is null, applyCallBluff raises the
\* hard fault 'No claim to challenge' and returns no result: no score, turn
\* owner or status changes.
C16_NoClaimToChallenge ==
  [][(call'.op = "applyCallBluff" /\ state.currentClaim = nullStr)
       => (/\ result' = [thrown |-> <<"No claim to challenge">>]
           /\ state' = state)]_vars

C16_Witness ==
  /\ call.op = "applyCallBluff"
  /\ "thrown" \in DOMAIN result
  /\ state.currentClaim = nullStr
  /\ state.player1Score < StartScore

\* C17: buildClaimOptions(21, r) returns exactly the lockdown set {21, 31} for
\* every playerRoll r (a number, null or left out): each once, no ordinary
\* claim value and no 41.
C17_LockdownOptions ==
  [][(call'.op = "buildClaimOptions" /\ call'.previousClaim = 21)
       => (/\ Range(result'.options) = {21, 31}
           /\ Len(result'.options) = 2)]_vars

C17_Witness ==
  /\ call.op = "buildClaimOptions"
  /\ call.previousClaim = 21
  /\ call.playerRoll = 65
  /\ Range(result.options) = {21, 31}

\* C18: for every valid non-null prior claim p, every value v returned by
\* buildClaimOptions(p, _) satisfies isLegalRaise(p, v) or is one of the
\* always-claimable specials 21 and 31.
C18_OptionsAreLegalRaisesOrSpecials ==
  [][(call'.op = "buildClaimOptions" /\ call'.previousClaim # nullNum)
       => \A v \in Range(result'.options) :
            isLegalRaise(call'.previousClaim, v) \/ v \in {21, 31}]_vars

C18_Witness ==
  /\ call.op = "buildClaimOptions"
  /\ call.previousClaim = 53
  /\ 65 \in Range(result.options)
  /\ 31 \in Range(result.options)
  /\ ~isLegalRaise(53, 31)

\* C19: buildClaimOptions is a function of previousClaim alone: a call returns
\* the same values in the same order as the call before it with the same
\* previousClaim, whatever playerRoll either was given (a number, null, none).
C19_OptionsDependOnPreviousClaimOnly ==
  [][(/\ call.op = "buildClaimOptions"
      /\ call'.op = "buildClaimOptions"
      /\ call'.previousClaim = call.previousClaim)
       => result'.options = result.options]_vars

C19_Witness ==
  /\ call.op = "buildClaimOptions"
  /\ call.previousClaim = 53
  /\ call.playerRoll = 32
  /\ result.options = buildClaimOptions(53, undefinedNum)
  /\ 65 \in Range(result.options)

C20_BluffResolvedAgainstDefendersRoll ==
  [][(/\ call'.op = "handleCallBluff"
      /\ state.currentPlayer = call'.me
      /\ state.currentClaim # nullStr
      /\ game[call'.me].currentClaim = state.currentClaim)
       => (/\ call'.defenderActualRoll = heldRoll
           /\ heldRoll = parseInt(state.currentClaim)
                => result'.liar = call'.me)]_vars

\* C21: in the online match screen a claim transition is computed from the
\* authoritative row and written with conflict rejection: when the other
\* client has just written the row, a claim computed from a copy that is not
\* the row is not written over it (no lost update).
C21_NoLostUpdate ==
  [][(/\ call.op = "handleClaim"
      /\ Accepted(result)
      /\ call'.op = "handleClaim"
      /\ call'.me # call.me
      /\ mapGameToCoreState(game[call'.me]) # state)
       => state' = state]_vars

\* C22: in the online match screen handleClaim and handleCallBluff make no
\* engine call and no write unless the local user is the participant the row's
\* current_player names.
C22_OnlyTurnOwnerActs ==
  [][call'.op \in {"handleClaim", "handleCallBluff"}
       => state.currentPlayer = call'.me]_vars

\* C23: after every successful applyCallBluff the turn owner is the caller,
\* the player who was currentPlayer when calling, whether the defender was
\* truthful or bluffing.
C23_CallerKeepsTurnAfterBluff ==
  [][(call'.op = "applyCallBluff" /\ Accepted(result'))
       => (/\ result'.newState.currentPlayer = state.currentPlayer
           /\ result'.message[2] = state.currentPlayer
           /\ state'.currentPlayer = state.currentPlayer)]_vars

C23_Witness ==
  /\ call.op = "applyCallBluff"
  /\ Accepted(result)
  /\ ~result.message[1]
  /\ result.liar = otherPlayer(state.currentPlayer)
  /\ state.status = "active"

\* C24: every round-ending transition (a successful applyCallBluff, a shown
\* Social, a lockdown violation) returns a state with currentClaim null,
\* baselineClaim null, lastAction normal and currentRoll null.
C24_RoundEndClearsClaimFields ==
  [][(/\ Accepted(result')
      /\ \/ call'.op = "applyCallBluff"
         \/ /\ call'.op = "applyClaim"
            /\ \/ call'.claim = 41 /\ call'.actualRoll = 41
               \/ state.currentClaim = String(21) /\ call'.claim \notin {21, 31, 41})
       => (/\ result'.newState.currentClaim = nullStr
           /\ result'.newState.baselineClaim = nullStr
           /\ result'.newState.lastAction = "normal"
           /\ result'.newState.currentRoll = nullStr)]_vars

C24_Witness ==
  /\ state.status = "active"
  /\ state.currentRoll # nullStr
  /\ state.currentClaim = String(21)
  /\ Accepted(applyClaim(state, 53, 53))
  /\ applyClaim(state, 53, 53).newState.currentRoll = nullStr
  /\ applyClaim(state, 53, 53).newState.currentClaim = nullStr
  /\ applyCallBluff(state, 21).newState.currentRoll = nullStr

\* C25: an accepted ordinary claim and a shown Social change neither player's
\* score, nor status, nor winner; the only fields they may change are
\* currentClaim, baselineClaim, lastAction, currentPlayer and currentRoll.
C25_ClaimFrame ==
  [][(/\ call'.op = "applyClaim"
      /\ Accepted(result')
      /\ ~(state.currentClaim = String(21) /\ call'.claim \notin {21, 31, 41}))
       => (/\ DOMAIN result'.newState = DOMAIN state
           /\ \A f \in DOMAIN state \ {"currentClaim", "baselineClaim", "lastAction",
                                       "currentPlayer", "currentRoll"} :
                result'.newState[f] = state[f])]_vars

C25_Witness ==
  /\ state.status = "active"
  /\ state.currentRoll # nullStr
  /\ state.currentClaim = String(53)
  /\ state.player1Score < StartScore
  /\ Accepted(applyClaim(state, 65, 32))
  /\ applyClaim(state, 65, 32).newState.currentRoll = nullStr
  /\ applyClaim(state, 65, 32).newState.player1Score = state.player1Score

\* C26: for every previousClaim (null, 21 or an ordinary claim) the list
\* buildClaimOptions returns contains 21 and 31, each exactly once, and never
\* contains 41.
C26_SpecialsOnceNoSocial ==
  [][call'.op = "buildClaimOptions"
       => LET options == result'.options
              count(v) == Cardinality({i \in DOMAIN options : options[i] = v})
          IN count(21) = 1 /\ count(31) = 1 /\ count(41) = 0]_vars

C26_Witness ==
  /\ call.op = "buildClaimOptions"
  /\ call.previousClaim = nullNum
  /\ Len(result.options) = 20
  /\ {21, 31} \subseteq Range(result.options)

\* C28: the liar field of applyCallBluff's result names the player whose score
\* the call decrements: the defender when defenderActualRoll differs from
\* currentClaim, the caller when the defender was truthful; the penalty field
\* is 2 exactly when lastAction was reverseVsMexican, else 1.
C28_LiarAndPenaltyFields ==
  [][(call'.op = "applyCallBluff" /\ Accepted(result'))
       => LET caller == state.currentPlayer
              truthful == call'.defenderActualRoll = parseInt(state.currentClaim)
          IN /\ result'.liar = (IF truthful THEN caller ELSE otherPlayer(caller))
             /\ scoreOf(result'.newState, result'.liar) < scoreOf(state, result'.liar)
             /\ scoreOf(result'.newState, otherPlayer(result'.liar))
                  = scoreOf(state, otherPlayer(result'.liar))
             /\ result'.penalty = (IF state.lastAction = "reverseVsMexican" THEN 2 ELSE 1)]_vars

C28_Witness ==
  /\ call.op = "applyCallBluff"
  /\ Accepted(result)
  /\ result.liar = state.currentPlayer
  /\ result.penalty = 2
  /\ call.defenderActualRoll = 31

\* C29: the option builder and the state machine agree: on every active state
\* whose baselineClaim equals currentClaim (or both are null), every value
\* returned by buildClaimOptions(currentClaim) is accepted by applyClaim as a
\* claim: success, currentClaim becomes that value, no score changes; so the
\* always-offered 31 and 21 are accepted whatever ordinary claim precedes them.
C29_OfferedOptionsAreAccepted ==
  [][(/\ call'.op = "applyClaim"
      /\ state.status = "active"
      /\ state.baselineClaim = state.currentClaim
      /\ call'.claim \in Range(buildClaimOptions(claimNumber(state.currentClaim),
                                                 undefinedNum)))
       => /\ Accepted(result')
          /\ state'.currentClaim = String(call'.claim)
          /\ state'.player1Score = state.player1Score
          /\ state'.player2Score = state.player2Score]_vars

C31_WinnerIffFinished ==
  /\ state.winner # "null" <=> state.status = "finished"
  /\ state.status = "finished"
       => /\ state.winner \in Players
          /\ scoreOf(state, state.winner) > 0
          /\ scoreOf(state, otherPlayer(state.winner)) = 0

C31_Witness ==
  /\ call.op = "applyCallBluff"
  /\ Accepted(result)
  /\ state.status = "finished"
  /\ state.winner = "player1"
  /\ state.player2Score = 0

\* C32: every successful applyCallBluff and every lockdown violation applied to
\* an active state with both scores positive lowers the sum of the two scores
\* by 1 or 2 and raises neither score; so from scores (a, b) the match is
\* finished after at most a + b - 1 such transitions: while the match is
\* active, fewer than that have happened.
C32_PenaltiesLowerScoresUntilFinished ==
  /\ [][(/\ penalties' = penalties + 1
          /\ state.status = "active"
          /\ state.player1Score > 0
          /\ state.player2Score > 0)
           => /\ (state.player1Score + state.player2Score)
                   - (state'.player1Score + state'.player2Score) \in {1, 2}
              /\ state'.player1Score <= state.player1Score
              /\ state'.player2Score <= state.player2Score]_vars
  /\ [](/\ penalties <= StartScore + StartScore - 1
        /\ state.status = "active" => penalties < StartScore + StartScore - 1)

C32_Witness ==
  /\ penalties = StartScore + StartScore - 1
  /\ state.status = "finished"
  /\ call.op = "applyClaim"
  /\ Accepted(result)

\* C33: once the match row has status finished (by a lockdown violation, a
\* bluff resolution or Leave Match), no later write of a client's handleClaim
\* sets status back to active or clears winner, also when the client computed
\* its claim from a copy of the row read before the match finished.
C33_FinishedRowStaysFinished ==
  [][(state.status = "finished" /\ call'.op = "handleClaim")
       => (state'.status = "finished" /\ state'.winner # "null")]_vars

\* C34: a match row's status changes from waiting to active only when both
\* player1_joined and player2_joined are true; no write made by rolling or
\* claiming moves a waiting match to active.
C34_ActivatedOnlyWhenBothJoined ==
  [][(state.status = "waiting" /\ state'.status = "active")
       => /\ state.player1_joined /\ state.player2_joined
          /\ call'.op \notin {"handleRoll", "handleClaim"}]_vars

C36_RollHeldUntilClaimOrBluffCall ==
  [][/\ call'.op = "handleRoll" => myRoll[call'.me] = nullNum
     /\ call'.op = "handleClaim" => myRoll[call'.me] # nullNum
     /\ \A p \in Players :
          (myRoll[p] # nullNum /\ myRoll'[p] = nullNum)
            => /\ call'.me = p
               /\ \/ call'.op = "handleCallBluff"
                  \/ call'.op = "handleClaim" /\ Accepted(result')]_vars

\* C37: for survival-best requests handled one at a time, the stored global
\* best after any sequence of requests equals the maximum of 0 and all validly
\* POSTed streaks; a POST answers updated = true exactly when its streak is
\* strictly greater than the stored best; GET, OPTIONS, unsupported methods
\* and invalid POSTs (non-numeric or negative streak, answered 400) never
\* change the stored value.
C37_StoredBestIsMaxOfPosted ==
  /\ [](bestOf(globalBest) = maxPosted)
  /\ [][call'.op = "handler"
          => IF validPost(call'.method, call'.body)
             THEN /\ result'.status = 200
                  /\ result'.updated
                       <=> call'.body.streak.num > bestOf(globalBest)
             ELSE /\ globalBest' = globalBest
                  /\ (/\ call'.method = "POST"
                      /\ "streak" \in DOMAIN call'.body
                      /\ \/ "num" \notin DOMAIN call'.body.streak
                         \/ call'.body.streak.num < 0)
                       => result'.status = 400]_vars

C37_Witness ==
  /\ call.op = "handler"
  /\ call.method = "POST"
  /\ call.body = [streak |-> [num |-> 2]]
  /\ result = [status |-> 200, best |-> 5, updated |-> FALSE]
  /\ globalBest = 5

\* C38: the stored global survival best never decreases, also when two POST
\* requests are handled concurrently with their read (kv.get) and write
\* (kv.set) steps interleaved.
C38_StoredBestNeverDecreases ==
  [][bestOf(globalBest') >= bestOf(globalBest)]_vars

====
